---- MODULE Spec2Model ----
(***************************************************************************)
(* A model of prompt.py: the style engine, the git porcelain parser, the   *)
(* part builders, the assembler and the bash prompt layout.                *)
(*                                                                         *)
(* A Python str is a sequence of characters; a character is a TLA+ string  *)
(* (one element of the sequence is one Python character, so Len is len).   *)
(* The private-use glyphs and the escape character are named elements.     *)
(* A Python dict is a record whose DOMAIN is the set of keys it holds.     *)
(***************************************************************************)
EXTENDS Integers, Sequences, FiniteSets, TLC

VARIABLES pc, args, ret, parts

vars == <<pc, args, ret, parts>>

(***************************************************************************)
(* Characters and constants (prompt.py lines 19-54).                       *)
(***************************************************************************)
ESC == "ESC"
NL == "\n"
None == "None"

SEP_R == "SEP_R"
SEP_L == "SEP_L"
SPACER == "SPACER"
CHEVRON == "CHEVRON"
USER_PLACEHOLDER == <<"USER_GLYPH", " ">>
BRANCH_SYMBOL == "BRANCH_SYMBOL"
DIR_SYMBOL == "DIR_SYMBOL"
VENV_SYMBOL == "VENV_SYMBOL"
GIT_AHEAD == "GIT_AHEAD"
GIT_BEHIND == "GIT_BEHIND"
GIT_STAGED == "+"
GIT_UNSTAGED == "~"
GIT_UNTRACKED == "?"
GIT_STASHED == "*"

MAX_PATH_LENGTH == 70

BLACK == "black"
RED == "red"
GREEN == "green"
YELLOW == "yellow"
BLUE == "blue"
MAGENTA == "magenta"
CYAN == "cyan"
WHITE == "white"
Colors == {BLACK, RED, GREEN, YELLOW, BLUE, MAGENTA, CYAN, WHITE}

USER_FG == BLACK
USER_BG == WHITE
PATH_FG == WHITE
PATH_BG == BLUE
VENV_FG == BLACK
VENV_BG == MAGENTA

os_sep == "/"

(***************************************************************************)
(* Python built-ins on str, as the source uses them.                       *)
(***************************************************************************)
Digits == {"0", "1", "2", "3", "4", "5", "6", "7", "8", "9"}
Whitespace == {" ", NL, "\t"}

DigitVal(c) ==
    CASE c = "0" -> 0 [] c = "1" -> 1 [] c = "2" -> 2 [] c = "3" -> 3
      [] c = "4" -> 4 [] c = "5" -> 5 [] c = "6" -> 6 [] c = "7" -> 7
      [] c = "8" -> 8 [] c = "9" -> 9

DigitChar(d) ==
    CASE d = 0 -> "0" [] d = 1 -> "1" [] d = 2 -> "2" [] d = 3 -> "3"
      [] d = 4 -> "4" [] d = 5 -> "5" [] d = 6 -> "6" [] d = 7 -> "7"
      [] d = 8 -> "8" [] d = 9 -> "9"

\* s.startswith(p)
startswith(s, p) == Len(p) <= Len(s) /\ SubSeq(s, 1, Len(p)) = p

\* s[i:] with a 0-based, non-negative i
SliceFrom(s, i) == SubSeq(s, i + 1, Len(s))

RECURSIVE lstrip(_)
lstrip(s) == IF s # <<>> /\ s[1] \in Whitespace THEN lstrip(Tail(s)) ELSE s

RECURSIVE rstrip(_)
rstrip(s) ==
    IF s # <<>> /\ s[Len(s)] \in Whitespace
    THEN rstrip(SubSeq(s, 1, Len(s) - 1))
    ELSE s

\* s.strip()
strip(s) == rstrip(lstrip(s))

\* The least element of a set of positions, or 0 when it is empty.
First(S) == IF S = {} THEN 0 ELSE CHOOSE x \in S : \A y \in S : x <= y

\* The index of the first c in s at or after position i, or 0.
IndexFrom(s, c, i) == First({k \in i..Len(s) : s[k] = c})

\* s.split(c, maxsplit); maxsplit = -1 splits at every c.
RECURSIVE split(_, _, _)
split(s, c, maxsplit) ==
    LET i == IndexFrom(s, c, 1)
    IN  IF maxsplit = 0 \/ i = 0 THEN <<s>>
        ELSE <<SubSeq(s, 1, i - 1)>>
                 \o split(SliceFrom(s, i), c,
                          IF maxsplit < 0 THEN maxsplit ELSE maxsplit - 1)

\* s.splitlines(): no line for the end of the text after a final line break.
RECURSIVE splitlines(_)
splitlines(s) ==
    LET i == IndexFrom(s, NL, 1)
    IN  IF s = <<>> THEN <<>>
        ELSE IF i = 0 THEN <<s>>
        ELSE <<SubSeq(s, 1, i - 1)>> \o splitlines(SliceFrom(s, i))

\* c.join(ss)
RECURSIVE join(_, _)
join(c, ss) ==
    IF ss = <<>> THEN <<>>
    ELSE IF Len(ss) = 1 THEN ss[1]
    ELSE ss[1] \o <<c>> \o join(c, Tail(ss))

RECURSIVE DecVal(_)
DecVal(d) ==
    IF d = <<>> THEN 0
    ELSE 10 * DecVal(SubSeq(d, 1, Len(d) - 1)) + DigitVal(d[Len(d)])

\* int(s): surrounding whitespace, one optional sign, then decimal digits;
\* anything else raises ValueError (ok = FALSE).
int(s) ==
    LET t == strip(s)
        signed == t # <<>> /\ t[1] \in {"+", "-"}
        d == IF signed THEN Tail(t) ELSE t
    IN  IF d # <<>> /\ \A i \in 1..Len(d) : d[i] \in Digits
        THEN [ok |-> TRUE,
              val |-> IF signed /\ t[1] = "-" THEN 0 - DecVal(d) ELSE DecVal(d)]
        ELSE [ok |-> FALSE, val |-> 0]

\* str(n) of an integer
RECURSIVE NatStr(_)
NatStr(n) ==
    IF n < 10 THEN <<DigitChar(n)>>
    ELSE NatStr(n \div 10) \o <<DigitChar(n % 10)>>

str(n) == IF n < 0 THEN <<"-">> \o NatStr(0 - n) ELSE NatStr(n)

\* c * n for a one-character string c
Repeat(c, n) == [i \in 1..n |-> c[1]]

\* Truthiness of an optional colour name ("if foreground:").
Truthy(color) == color # None /\ color # ""

(***************************************************************************)
(* Styling utilities (prompt.py lines 58-147).                             *)
(***************************************************************************)
_zero_width(s) == <<"%", "{">> \o s \o <<"%", "}">>

ColorDigit(color) ==
    CASE color = BLACK -> "0" [] color = RED -> "1" [] color = GREEN -> "2"
      [] color = YELLOW -> "3" [] color = BLUE -> "4"
      [] color = MAGENTA -> "5" [] color = CYAN -> "6" [] color = WHITE -> "7"

_foreground(s, color) ==
    _zero_width(<<ESC, "[", "3", ColorDigit(color), "m">>) \o s

_background(s, color) ==
    _zero_width(<<ESC, "[", "4", ColorDigit(color), "m">>) \o s

_bold(s) == _zero_width(<<ESC, "[", "1", "m">>) \o s

_quick_bold(s) == _bold(s) \o _zero_width(<<ESC, "[", "2", "2", "m">>)

_underline(s) == _zero_width(<<ESC, "[", "4", "m">>) \o s

_reverse(s) == _zero_width(<<ESC, "[", "7", "m">>) \o s

_reset(s) == s \o _zero_width(<<ESC, "[", "0", "m">>)

_newline == _zero_width(<<NL>>)

style(s, foreground, background, bold, underline, reverse) ==
    LET WithForeground(t) ==
            IF Truthy(foreground) THEN _foreground(t, foreground) ELSE t
        WithBackground(t) ==
            IF Truthy(background) THEN _background(t, background) ELSE t
        WithBold(t) == IF bold THEN _bold(t) ELSE t
        WithUnderline(t) == IF underline THEN _underline(t) ELSE t
        WithReverse(t) == IF reverse THEN _reverse(t) ELSE t
    IN  IF s = <<>> THEN s
        ELSE _reset(WithReverse(WithUnderline(WithBold(WithBackground(
                 WithForeground(s))))))

(***************************************************************************)
(* printable_length (prompt.py lines 542-546).                             *)
(***************************************************************************)
\* [0-9;]* from position j on: the position after the run.
RECURSIVE ParamsEnd(_, _)
ParamsEnd(s, j) ==
    IF j <= Len(s) /\ s[j] \in (Digits \cup {";"}) THEN ParamsEnd(s, j + 1) ELSE j

\* Where a match of r"\x1b\[[0-9;]*m" starting at k ends, or 0 when none
\* starts there: the first character after the run of digits and ";" must
\* be "m".
AnsiEnd(s, k) ==
    LET j == ParamsEnd(s, k + 2)
    IN  IF k + 1 <= Len(s) /\ s[k] = ESC /\ s[k + 1] = "[" /\ j <= Len(s)
           /\ s[j] = "m"
        THEN j
        ELSE 0

\* re.sub(r"\x1b\[[0-9;]*m", "", s) from position i on: the scan takes the
\* leftmost position where a match starts, drops the match, and goes on
\* after it.  `starts` are the positions of s where a match can start.
RECURSIVE AnsiSubFrom(_, _, _)
AnsiSubFrom(s, starts, i) ==
    LET k == First({x \in starts : x >= i})
    IN  IF k = 0 THEN SubSeq(s, i, Len(s))
        ELSE SubSeq(s, i, k - 1) \o AnsiSubFrom(s, starts, AnsiEnd(s, k) + 1)

ansi_escape_sub(s) ==
    AnsiSubFrom(s, {k \in 1..Len(s) : AnsiEnd(s, k) # 0}, 1)

\* Where a match of r"%\{.*?%\}" starting at the "%{" at k ends (its last
\* character), or 0 when none starts there: the lazy ".*?" stops at the
\* first "%}", and "." matches no line break.  `closes` are the positions
\* of the "%}" of the string and `breaks` those of its line breaks.
ZeroWidthEnd(closes, breaks, k) ==
    LET c == First({x \in closes : x >= k + 2})
    IN  IF c # 0 /\ \A b \in breaks : ~(k + 2 <= b /\ b < c)
        THEN c + 1
        ELSE 0

\* re.sub(r"%\{.*?%\}", "", s) from position i on; end[k] is where the
\* match starting at the "%{" at k ends.
RECURSIVE ZeroWidthSubFrom(_, _, _)
ZeroWidthSubFrom(s, end, i) ==
    LET k == First({x \in DOMAIN end : x >= i /\ end[x] # 0})
    IN  IF k = 0 THEN SubSeq(s, i, Len(s))
        ELSE SubSeq(s, i, k - 1) \o ZeroWidthSubFrom(s, end, end[k] + 1)

zero_width_sub(s) ==
    LET opens == {k \in 1..(Len(s) - 1) : s[k] = "%" /\ s[k + 1] = "{"}
        closes == {k \in 1..(Len(s) - 1) : s[k] = "%" /\ s[k + 1] = "}"}
        breaks == {k \in 1..Len(s) : s[k] = NL}
    IN  ZeroWidthSubFrom(s, [k \in opens |-> ZeroWidthEnd(closes, breaks, k)], 1)

\* A measure that strips the ANSI sequences only and counts the zero-width
\* brackets around them as columns.
printable_length_AnsiOnly(s) == Len(ansi_escape_sub(s))

printable_length(s) == Len(zero_width_sub(ansi_escape_sub(s)))

(***************************************************************************)
(* Exceptions and optional arguments.  A call returns                      *)
(* [raised |-> None, value |-> v] or [raised |-> <exception class>].       *)
(* An optional str argument is Some(s) or Absent (Python's None).          *)
(***************************************************************************)
Return(v) == [raised |-> None, value |-> v]
Raise(exc) == [raised |-> exc]
Some(s) == [given |-> TRUE, value |-> s]
Absent == [given |-> FALSE]

(***************************************************************************)
(* _parse_git_porcelain (prompt.py lines 342-398).                         *)
(***************************************************************************)
BranchHeadPrefix ==
    <<"#", " ", "b", "r", "a", "n", "c", "h", ".", "h", "e", "a", "d">>
BranchAbPrefix == <<"#", "b", "r", "a", "n", "c", "h", ".", "a", "b">>
StashPrefix == <<"#", " ", "s", "t", "a", "s", "h">>

InitialInfo ==
    [branch |-> <<"u", "n", "k", "n", "o", "w", "n">>,
     ahead |-> 0, behind |-> 0, staged |-> 0, unstaged |-> 0,
     untracked |-> 0, unmerged |-> 0, stash |-> 0]

\* for part in parts[2:]: the "+" and "-" tokens, from token i on.
RECURSIVE ParseAheadBehind(_, _, _)
ParseAheadBehind(info, toks, i) ==
    IF i > Len(toks) THEN Return(info)
    ELSE
      LET part == toks[i]
          n == int(SliceFrom(part, 1))
      IN  IF startswith(part, <<"+">>)
          THEN IF n.ok
               THEN ParseAheadBehind([info EXCEPT !.ahead = n.val], toks, i + 1)
               ELSE Raise("ValueError")
          ELSE IF startswith(part, <<"-">>)
          THEN IF n.ok
               THEN ParseAheadBehind([info EXCEPT !.behind = n.val], toks, i + 1)
               ELSE Raise("ValueError")
          ELSE ParseAheadBehind(info, toks, i + 1)

\* One pass of the loop body over `line`.
ParseLine(info, line) ==
    IF startswith(line, BranchHeadPrefix)
    THEN LET toks == split(line, " ", 2)
         IN  IF Len(toks) < 3 THEN Raise("IndexError")
             ELSE Return([info EXCEPT !.branch = toks[3]])
    ELSE IF startswith(line, BranchAbPrefix)
    THEN ParseAheadBehind(info, split(line, " ", -1), 3)
    ELSE IF startswith(line, StashPrefix)
    THEN LET toks == split(line, " ", 2)
         IN  IF Len(toks) < 3 THEN Raise("IndexError")
             ELSE IF int(toks[3]).ok
             THEN Return([info EXCEPT !.stash = int(toks[3]).val])
             ELSE Raise("ValueError")
    ELSE IF line # <<>> /\ ~startswith(line, <<"#">>)
    THEN LET indicator == line[1]
         IN  IF indicator = "1" \/ indicator = "2"
             THEN IF Len(line) < 3 THEN Raise("IndexError")
                  ELSE
                    LET i1 == IF line[3] # "."
                              THEN [info EXCEPT !.staged = @ + 1]
                              ELSE info
                    IN  IF Len(line) < 4 THEN Raise("IndexError")
                        ELSE IF line[4] # "."
                        THEN Return([i1 EXCEPT !.unstaged = @ + 1])
                        ELSE Return(i1)
             ELSE IF indicator = "?"
             THEN Return([info EXCEPT !.untracked = @ + 1])
             ELSE IF indicator = "u"
             THEN Return([info EXCEPT !.unmerged = @ + 1])
             ELSE Return(info)
    ELSE Return(info)

\* for line in lines, from line i on; an exception ends the loop.
RECURSIVE ParseLines(_, _, _)
ParseLines(info, lines, i) ==
    IF i > Len(lines) THEN Return(info)
    ELSE
      LET r == ParseLine(info, lines[i])
      IN  IF r.raised # None THEN r ELSE ParseLines(r.value, lines, i + 1)

_parse_git_porcelain(git_porcelain) ==
    LET stripped == strip(git_porcelain)
        lines == splitlines(stripped)
    IN  IF stripped = <<>> THEN Raise("ValueError")
        ELSE IF \A i \in 1..Len(lines) : lines[i] = <<>> THEN Raise("ValueError")
        ELSE ParseLines(InitialInfo, lines, 1)

(***************************************************************************)
(* _parse_zsh_vcs_info (prompt.py lines 332-339).  The dict is the         *)
(* sequence of its <<key, value>> items; a later item of a key replaces    *)
(* an earlier one.                                                         *)
(***************************************************************************)
RECURSIVE ItemsToDict(_)
ItemsToDict(items) ==
    IF items = <<>> THEN <<>>
    ELSE
      LET item == items[Len(items)]
          rest == ItemsToDict(SubSeq(items, 1, Len(items) - 1))
          kv == split(item, ":", 1)
      IN  IF IndexFrom(item, ":", 1) = 0 THEN rest
          ELSE SelectSeq(rest, LAMBDA e : e[1] # kv[1]) \o <<kv>>

_parse_zsh_vcs_info(git_info) == ItemsToDict(split(git_info, "|", -1))

\* d.get(key), None being the empty string here: both are falsy where used.
DictGet(d, key) ==
    LET hits == SelectSeq(d, LAMBDA e : e[1] = key)
    IN  IF hits = <<>> THEN <<>> ELSE hits[1][2]

(***************************************************************************)
(* get_time_since_last_commit (prompt.py lines 522-536); `now` is          *)
(* int(datetime.now().timestamp()).                                        *)
(***************************************************************************)
get_time_since_last_commit(time_of_last_commit, now) ==
    LET t == int(time_of_last_commit)
        time_since_last_commit == now - t.val
    IN  IF ~t.ok THEN <<>>
        ELSE IF time_since_last_commit < 60
        THEN <<"j", "u", "s", "t", " ", "n", "o", "w">>
        ELSE IF time_since_last_commit < 3600
        THEN str(time_since_last_commit \div 60) \o <<"m">>
        ELSE IF time_since_last_commit < 86400
        THEN str(time_since_last_commit \div 3600) \o <<"h">>
        ELSE str(time_since_last_commit \div 86400) \o <<"d">>

(***************************************************************************)
(* get_vcs_info (prompt.py lines 457-519).                                 *)
(***************************************************************************)
MainBranches == {<<"m", "a", "i", "n">>, <<"m", "a", "s", "t", "e", "r">>}
ActionKey == <<"a", "c", "t", "i", "o", "n">>

\* parts.append(f"{symbol}{count}") if count > 0
CountPart(symbol, count) ==
    IF count > 0 THEN <<<<symbol>> \o str(count)>> ELSE <<>>

\* The body of get_vcs_info after the try: `parsed` is what
\* _parse_git_porcelain returned or raised.
VcsPart(parsed, vcs_info, time_of_last_commit, now) ==
    LET action == DictGet(vcs_info, ActionKey)
        hasAction == vcs_info # <<>>
                     /\ (\E i \in 1..Len(vcs_info) : vcs_info[i][1] # <<>>)
                     /\ action # <<>>
        pretty_msg == IF time_of_last_commit.given
                      THEN get_time_since_last_commit(time_of_last_commit.value, now)
                      ELSE <<>>
    IN  IF parsed.raised = "ValueError"
        THEN Return([text |-> <<>>, foreground |-> BLACK, background |-> YELLOW])
        ELSE IF parsed.raised # None THEN parsed
        ELSE Return(
               [text |->
                  join(" ",
                       (IF hasAction THEN <<<<"[">> \o action \o <<"]">>>> ELSE <<>>)
                       \o <<_quick_bold(<<BRANCH_SYMBOL>>),
                            _quick_bold(parsed.value.branch)>>
                       \o CountPart(GIT_AHEAD, parsed.value.ahead)
                       \o CountPart(GIT_BEHIND, parsed.value.behind)
                       \o CountPart(GIT_STAGED, parsed.value.staged)
                       \o CountPart(GIT_UNSTAGED, parsed.value.unstaged)
                       \o CountPart(GIT_UNTRACKED, parsed.value.untracked)
                       \o CountPart(GIT_STASHED, parsed.value.stash)
                       \o (IF pretty_msg # <<>>
                           THEN <<<<"(">> \o pretty_msg \o <<")">>>>
                           ELSE <<>>)),
                foreground |-> IF hasAction THEN BLACK
                               ELSE IF parsed.value.branch \in MainBranches
                               THEN WHITE ELSE BLACK,
                background |-> IF hasAction THEN RED
                               ELSE IF parsed.value.branch \in MainBranches
                               THEN BLUE ELSE YELLOW])

get_vcs_info(git_porcelain, vcs_info, time_of_last_commit, now) ==
    VcsPart(_parse_git_porcelain(git_porcelain), vcs_info, time_of_last_commit, now)

(***************************************************************************)
(* get_last_exit_status_from_code (prompt.py lines 298-329).               *)
(***************************************************************************)
Part(text, fg, bg) == [text |-> text, foreground |-> fg, background |-> bg]

messages(code) ==
    CASE code = 1 -> Part(<<"E", "R", "R", "O", "R">>, WHITE, RED)
      [] code = 2 -> Part(<<"U", "S", "A", "G", "E">>, BLACK, YELLOW)
      [] code = 126 -> Part(<<"N", "O", "E", "X", "E", "C">>, BLACK, YELLOW)
      [] code = 127 ->
           Part(<<"C", "M", "D", " ", "N", "O", "T", " ", "F", "O", "U", "N", "D">>,
                WHITE, RED)
      [] code = 128 -> Part(<<"B", "A", "D", " ", "E", "X", "I", "T">>, BLACK, YELLOW)
      [] code = 130 ->
           Part(<<"I", "N", "T", "E", "R", "R", "U", "P", "T", "E", "D">>, BLACK, CYAN)
      [] code = 134 -> Part(<<"A", "B", "O", "R", "T">>, WHITE, RED)
      [] code = 137 -> Part(<<"K", "I", "L", "L", "E", "D">>, WHITE, RED)
      [] code = 139 -> Part(<<"S", "E", "G", "F", "A", "U", "L", "T">>, WHITE, RED)
      [] code = 143 -> Part(<<"T", "E", "R", "M">>, BLACK, CYAN)
      [] code = 255 -> Part(<<"F", "A", "T", "A", "L">>, WHITE, RED)

MessageCodes == {1, 2, 126, 127, 128, 130, 134, 137, 139, 143, 255}

get_last_exit_status_from_code(last_exit_str) ==
    LET output == [text |-> <<>>, foreground |-> BLACK, background |-> RED,
                   bold |-> TRUE]
        last_exit_code == int(last_exit_str.value)
    IN  IF last_exit_str.given /\ last_exit_str.value = <<"0">> THEN output
        ELSE IF ~last_exit_str.given \/ ~last_exit_code.ok THEN output
        ELSE IF last_exit_code.val \in MessageCodes
        THEN messages(last_exit_code.val)
        ELSE [output EXCEPT
                !.text = <<"E", "R", "R", " ">> \o str(last_exit_code.val)]

(***************************************************************************)
(* _shorten_path, get_path, get_current_working_dir                        *)
(* (prompt.py lines 175-232).                                              *)
(***************************************************************************)
\* os.path.expanduser("~") of the model's user.
homedir == <<"/", "h">>

NotFoundText == <<"[", "n", "o", "t", " ", "f", "o", "u", "n", "d", "]">>

\* if not path.startswith("~"): replace a leading homedir by "~".
ReplaceHome(path) ==
    IF ~startswith(path, <<"~">>) /\ startswith(path, homedir)
    THEN <<"~">> \o SliceFrom(path, Len(homedir))
    ELSE path

\* path.split(os.sep) without the empty strings.
PathParts(path) == SelectSeq(split(path, os_sep, -1), LAMBDA part : part # <<>>)

\* parts[-1] = _bold(parts[-1])
BoldLast(ps) ==
    IF ps # <<>> THEN [ps EXCEPT ![Len(ps)] = _bold(ps[Len(ps)])] ELSE ps

\* The truncation loop from index i on (1-based): the parts as the loop
\* leaves them.  `path` is os.sep.join(ps) throughout.
RECURSIVE TruncateParts(_, _, _)
TruncateParts(ps, i, max_length) ==
    IF i > Len(ps) - 1 THEN ps
    ELSE IF Len(join(os_sep, ps)) <= max_length THEN ps
    ELSE IF Len(ps[i]) > 1
    THEN TruncateParts([ps EXCEPT ![i] = <<ps[i][1]>>], i + 1, max_length)
    ELSE TruncateParts(ps, i + 1, max_length)

\* The path's parts when _shorten_path returns.
ShortenedParts(path, max_length) ==
    TruncateParts(BoldLast(PathParts(ReplaceHome(path))), 1, max_length)

_shorten_path(path, max_length) == join(os_sep, ShortenedParts(path, max_length))

get_path(path, max_length) ==
    [text |-> <<DIR_SYMBOL, " ">> \o _shorten_path(path, max_length),
     foreground |-> PATH_FG, background |-> PATH_BG]

\* getcwd is what os.getcwd() does: [errno |-> 0, value |-> path] or an
\* OSError with its errno.
get_current_working_dir(getcwd) ==
    IF getcwd.errno = 0
    THEN Return([text |-> _shorten_path(getcwd.value, MAX_PATH_LENGTH),
                 foreground |-> PATH_FG, background |-> PATH_BG])
    ELSE IF getcwd.errno # 2 THEN Raise("OSError")
    ELSE Return([text |-> NotFoundText,
                 foreground |-> PATH_FG, background |-> PATH_BG])

(***************************************************************************)
(* get_venv, get_user_at_host, get_chevron (prompt.py lines 235-295).      *)
(* The environment values are arguments: an unset variable is Absent.      *)
(***************************************************************************)
\* os.path.basename(path)
RECURSIVE basename(_)
basename(path) ==
    LET i == IndexFrom(path, os_sep, 1)
    IN  IF i = 0 THEN path ELSE basename(SliceFrom(path, i))

get_venv(VIRTUAL_ENV, SHLVL) ==
    LET path == IF VIRTUAL_ENV.given THEN VIRTUAL_ENV.value ELSE <<>>
        shell_level == int(IF SHLVL.given THEN SHLVL.value ELSE <<"0">>)
        text == IF path # <<>> THEN basename(path) \o <<" ", VENV_SYMBOL>> ELSE <<>>
        nested == Repeat(<<"(">>, shell_level.val)
                  \o <<"s", "h", "e", "l", "l">>
                  \o Repeat(<<")">>, shell_level.val)
    IN  [text |-> IF shell_level.ok /\ shell_level.val > 1
                  THEN (IF text # <<>> THEN text \o <<" ">> ELSE text) \o nested
                  ELSE text,
         foreground |-> VENV_FG, background |-> VENV_BG]

_get_user_name(USER) ==
    IF USER.given /\ USER.value # <<>> THEN USER.value ELSE <<"?", "?", "?", "?">>

_get_host_name(hostname) ==
    IF hostname # <<>> THEN hostname
    ELSE <<"[", "u", "n", "k", "n", "o", "w", "n", " ", "h", "o", "s", "t", "]">>

get_user_at_host(SSH_CONNECTION, USER, hostname) ==
    IF SSH_CONNECTION.given /\ SSH_CONNECTION.value # <<>>
    THEN [text |-> _get_user_name(USER) \o <<"@">> \o _get_host_name(hostname),
          foreground |-> USER_FG, background |-> USER_BG, bold |-> FALSE]
    ELSE [text |-> USER_PLACEHOLDER,
          foreground |-> USER_FG, background |-> USER_BG, bold |-> TRUE]

\* last_exit_status is the exit part's text: a non-empty text is truthy.
get_chevron(last_exit_status) ==
    style(<<CHEVRON>>, IF last_exit_status # <<>> THEN RED ELSE GREEN, None,
          TRUE, FALSE, FALSE)

_spacer(width) == Repeat(<<SPACER>>, width)

(***************************************************************************)
(* parts_assembler (prompt.py lines 549-588).  The list comprehension      *)
(* makes a new list of the SAME dicts, so the pops reach the caller's      *)
(* dicts: the result carries the list as the call leaves it.               *)
(***************************************************************************)
\* part.get("text") is truthy
HasText(part) == "text" \in DOMAIN part /\ part.text # <<>>

\* The dict after the three pops: the remaining keys are the styles.
Popped(part) ==
    [k \in (DOMAIN part) \ {"text", "foreground", "background"} |-> part[k]]

StyleFlag(styles, k) == k \in DOMAIN styles /\ styles[k]

\* The loop from kept part i on.  `popped` counts the dicts popped so far.
RECURSIVE AssembleFrom(_, _, _, _, _)
AssembleFrom(kept, i, assembly, last_bg, side) ==
    IF i > Len(kept) THEN [raised |-> None, value |-> assembly, popped |-> i - 1]
    ELSE
      LET part_text == kept[i].text
          part_fg == kept[i].foreground
          part_bg == kept[i].background
          styles == Popped(kept[i])
          separator ==
              IF assembly # <<>>
              THEN IF side = "left"
                   THEN style(<<SEP_R>>, last_bg, part_bg, FALSE, FALSE, FALSE)
                   ELSE style(<<SEP_L>>, part_bg, last_bg, FALSE, FALSE, FALSE)
              ELSE style(<<SEP_L>>, part_bg, None, FALSE, FALSE, FALSE)
          body == style(<<" ">> \o part_text \o <<" ">>, part_fg, part_bg,
                        StyleFlag(styles, "bold"), StyleFlag(styles, "underline"),
                        StyleFlag(styles, "reverse"))
          trailing == IF i = Len(kept)
                      THEN style(<<SEP_R>>, part_bg, None, FALSE, FALSE, FALSE)
                      ELSE <<>>
      IN  IF assembly # <<>> /\ side \notin {"left", "right"}
          THEN [raised |-> "ValueError", popped |-> i]
          ELSE AssembleFrom(kept, i + 1, assembly \o separator \o body \o trailing,
                            part_bg, side)

\* How many of ps[1..j] have text.
RECURSIVE TextRank(_, _)
TextRank(ps, j) ==
    IF j = 0 THEN 0
    ELSE TextRank(ps, j - 1) + (IF HasText(ps[j]) THEN 1 ELSE 0)

\* An assembler that keeps the parts without text.
NonEmptyParts_KeepAll(ps) == ps

\* parts = [part for part in parts if part.get("text")]
NonEmptyParts(ps) == SelectSeq(ps, HasText)

parts_assembler(ps, side) ==
    LET \* The call's outcome, r being how the loop over the kept parts ended.
        Outcome(r) ==
            LET after == [j \in 1..Len(ps) |->
                            IF HasText(ps[j]) /\ TextRank(ps, j) <= r.popped
                            THEN Popped(ps[j])
                            ELSE ps[j]]
            IN  IF r.raised = None
                THEN [raised |-> None, value |-> r.value, parts |-> after]
                ELSE [raised |-> r.raised, parts |-> after]
    IN  Outcome(AssembleFrom(NonEmptyParts(ps), 1, <<>>, None, side))

(***************************************************************************)
(* bash_prompt (prompt.py lines 617-642).  `mapping` is the caller's       *)
(* dict of parts; width1 and width2 are what the two _terminal_width()     *)
(* calls return.  The result carries every local the layout decides on     *)
(* and the caller's mapping as the call leaves it.                         *)
(***************************************************************************)
\* A layout that leaves no column free at the end of the line.
Gap_NoMargin(width, left_side, right_side) ==
    width - (printable_length(left_side) + printable_length(right_side))

\* space = _terminal_width() - content_length - 1
Gap(width, left_side, right_side) ==
    width - (printable_length(left_side) + printable_length(right_side)) - 1

bash_prompt(mapping, width1, width2) ==
    LET path_text == SliceFrom(mapping.path.text, 2)
        \* The returned prompt.
        Prompt(left_side, space, right_side) ==
            left_side \o _spacer(space) \o right_side \o _newline
                \o get_chevron(mapping.exit.text) \o <<" ">>
        \* if space < 0: the second pass, on the caller's own user and vcs
        \* dicts.
        Refit(left1, right_side, space1, path_length) ==
            LET Reassembled(new_path, left2) ==
                    LET Spaced(space2) ==
                            [raised |-> None,
                             value |-> Prompt(left2.value, space2, right_side),
                             parts |-> [mapping EXCEPT !.user = left2.parts[1],
                                                       !.vcs = left2.parts[3]],
                             overflow |-> TRUE,
                             first_left |-> left1,
                             left_side |-> left2.value,
                             right_side |-> right_side,
                             first_space |-> space1,
                             space |-> space2,
                             path_text |-> path_text,
                             path_length |-> path_length,
                             new_path |-> new_path]
                    IN  Spaced(Gap(width2, left2.value, right_side))
                Shortened(new_path) ==
                    Reassembled(new_path,
                                parts_assembler(<<mapping.user, new_path, mapping.vcs>>,
                                                "left"))
            IN  Shortened(get_path(path_text, path_length))
        \* First pass: on the deep copy, which the caller never sees.
        Layout(left1, right_side) ==
            LET Spaced(space1) ==
                    IF space1 < 0
                    THEN Refit(left1, right_side, space1,
                               printable_length(path_text) + space1 - 2)
                    ELSE [raised |-> None,
                          value |-> Prompt(left1, space1, right_side),
                          parts |-> mapping,
                          overflow |-> FALSE,
                          first_left |-> left1,
                          left_side |-> left1,
                          right_side |-> right_side,
                          first_space |-> space1,
                          space |-> space1,
                          path_text |-> path_text,
                          path_length |-> MAX_PATH_LENGTH,
                          new_path |-> mapping.path]
            IN  Spaced(Gap(width1, left1, right_side))
    IN  IF "text" \notin DOMAIN mapping.path
        THEN [raised |-> "KeyError", parts |-> mapping]
        ELSE Layout(parts_assembler(<<mapping.user, mapping.path, mapping.vcs>>,
                                    "left").value,
                    parts_assembler(<<mapping.exit, mapping.venv>>, "right").value)

(***************************************************************************)
(* _get_parts (prompt.py lines 645-659).  `flags` are the command-line     *)
(* arguments (Absent when not given), `env` what the process reads from    *)
(* its environment.                                                        *)
(***************************************************************************)
OrEmpty(flag) == IF flag.given THEN flag.value ELSE <<>>

_get_parts(flags, env) ==
    LET cwd == flags.current_working_dir
        Built(path, vcs) ==
            IF path.raised # None THEN path
            ELSE IF vcs.raised # None THEN vcs
            ELSE Return([user |-> get_user_at_host(env.SSH_CONNECTION, env.USER,
                                                   env.hostname),
                         path |-> path.value,
                         vcs |-> vcs.value,
                         exit |-> get_last_exit_status_from_code(flags.last_exit_code),
                         venv |-> get_venv(env.VIRTUAL_ENV, env.SHLVL)])
    IN  Built(IF cwd.given /\ cwd.value # <<>>
              THEN Return(get_path(cwd.value, MAX_PATH_LENGTH))
              ELSE get_current_working_dir(env.getcwd),
              get_vcs_info(OrEmpty(flags.git_porcelain),
                           _parse_zsh_vcs_info(OrEmpty(flags.vcs_info)),
                           Some(OrEmpty(flags.time_of_last_commit)), env.now))

(***************************************************************************)
(* The status parser as a state machine: one process is given a status     *)
(* text and calls _parse_git_porcelain or get_vcs_info on it once.         *)
(***************************************************************************)
MaxLines == 2

NoReturn == [pending |-> TRUE]
NoParts == [pending |-> TRUE]

DocumentedAbPrefix == <<"#", " ", "b", "r", "a", "n", "c", "h", ".", "a", "b">>

\* The lines a status text is made of: well-formed porcelain v2 lines, the
\* ahead/behind line in both spellings, and malformed ones.
PorcelainLines ==
    { BranchHeadPrefix \o <<" ", "m", "a", "i", "n">>,
      BranchHeadPrefix \o <<" ", "d", "e", "v">>,
      BranchHeadPrefix,
      DocumentedAbPrefix \o <<" ", "+", "2", " ", "-", "3">>,
      DocumentedAbPrefix \o <<" ", "+", "4">>,
      BranchAbPrefix \o <<" ", "+", "1", " ", "-", "2">>,
      BranchAbPrefix \o <<" ", "+", "-", "5">>,
      StashPrefix \o <<" ", "2">>,
      StashPrefix \o <<" ", "x">>,
      StashPrefix \o <<" ", "-", "1">>,
      StashPrefix,
      <<"1", " ", "M", ".", " ", "N", ".", ".", ".">>,
      <<"2", " ", ".", "M", " ", "N", ".", ".", ".">>,
      <<"1", " ", "M">>,
      <<"?", " ", "f">>,
      <<"u", " ", "U", "U">>,
      <<" ">>,
      <<>> }

\* The scenario of the specification: three lines.
ScenarioText ==
    join(NL, << BranchHeadPrefix \o <<" ", "m", "a", "i", "n">>,
                DocumentedAbPrefix \o <<" ", "+", "2", " ", "-", "3">>,
                <<"1", " ", "M", ".", " ", "N", ".", ".", ".">> >>)

PorcelainTexts ==
    { join(NL, ls) : ls \in UNION { [1..n -> PorcelainLines] : n \in 0..MaxLines } }
        \cup {ScenarioText}

\* --vcs-info values, --time-of-last-commit values and clock readings.
VcsInfoFlags == { <<>>, <<"a", "c", "t", "i", "o", "n", ":", "r", "e", "b", "a", "s", "e">> }
TimeFlags == { Absent, Some(<<>>), Some(<<"1", "0", "0">>) }
Clocks == { 130, 7300 }

InitParse ==
    /\ pc = "start"
    /\ args \in { [git_porcelain |-> t] : t \in PorcelainTexts }
    /\ ret = NoReturn
    /\ parts = NoParts

ParseGitPorcelain ==
    /\ pc = "start"
    /\ pc' = "_parse_git_porcelain"
    /\ ret' = _parse_git_porcelain(args.git_porcelain)
    /\ UNCHANGED <<args, parts>>

GetVcsInfo ==
    /\ pc = "start"
    /\ \E v \in VcsInfoFlags, t \in TimeFlags, now \in Clocks :
          /\ args' = [git_porcelain |-> args.git_porcelain, vcs_info |-> v,
                      time_of_last_commit |-> t, now |-> now]
          /\ ret' = get_vcs_info(args.git_porcelain, _parse_zsh_vcs_info(v), t, now)
    /\ pc' = "get_vcs_info"
    /\ UNCHANGED parts

NextParse == ParseGitPorcelain \/ GetVcsInfo

SpecParse == InitParse /\ [][NextParse]_vars

(***************************************************************************)
(* Claims about the status parser.                                         *)
(***************************************************************************)
\* The lines of a status text as the parser sees them.
LinesOf(text) == splitlines(strip(text))

HasLine(text, prefix) ==
    \E i \in 1..Len(LinesOf(text)) : startswith(LinesOf(text)[i], prefix)

\* The ahead/behind counts the documented "# branch.ab +A -B" lines of a text
\* carry: the "+" and "-" tokens of each such line, a later line replacing an
\* earlier one, 0 where no token sets a count.
RECURSIVE DocumentedAb(_, _, _)
DocumentedAb(info, lines, i) ==
    IF i > Len(lines) THEN info
    ELSE IF startswith(lines[i], DocumentedAbPrefix \o <<" ">>)
    THEN DocumentedAb(ParseAheadBehind(info, split(lines[i], " ", -1), 3).value,
                      lines, i + 1)
    ELSE DocumentedAb(info, lines, i + 1)

\* C1: a status text with a line "# branch.ab +A -B" parses to ahead = A and
\* behind = B (a missing token leaves its count at 0); the scenario text
\* "# branch.head main", "# branch.ab +2 -3", "1 M. N..." parses to branch
\* main, ahead 2, behind 3, staged 1, unstaged 0.
C1_AheadBehindRead ==
    (pc = "_parse_git_porcelain" /\ ret.raised = None
       /\ HasLine(args.git_porcelain, DocumentedAbPrefix \o <<" ">>)) =>
        LET want == DocumentedAb(InitialInfo, LinesOf(args.git_porcelain), 1)
        IN  /\ ret.value.ahead = want.ahead
            /\ ret.value.behind = want.behind
            /\ args.git_porcelain = ScenarioText =>
                  /\ ret.value.branch = <<"m", "a", "i", "n">>
                  /\ ret.value.ahead = 2 /\ ret.value.behind = 3
                  /\ ret.value.staged = 1 /\ ret.value.unstaged = 0

\* C2: get_vcs_info returns a part for every status text and lets no error
\* escape; when parsing fails the part has empty text, black on yellow.
C2_VcsInfoNeverRaises ==
    pc = "get_vcs_info" =>
        /\ ret.raised = None
        /\ _parse_git_porcelain(args.git_porcelain).raised # None =>
              ret.value = [text |-> <<>>, foreground |-> BLACK,
                           background |-> YELLOW]

\* C9: every record _parse_git_porcelain returns has its seven counts
\* non-negative, each 0 when no line of the input sets it, and branch
\* "unknown" when the input has no branch-header line.
C9_CountsNonNegative ==
    (pc = "_parse_git_porcelain" /\ ret.raised = None) =>
        LET info == ret.value
            text == args.git_porcelain
            fileLine(c) == \E i \in 1..Len(LinesOf(text)) :
                              startswith(LinesOf(text)[i], <<c>>)
        IN  /\ \A k \in {"ahead", "behind", "staged", "unstaged", "untracked",
                         "unmerged", "stash"} : info[k] >= 0
            /\ ~HasLine(text, BranchHeadPrefix) => info.branch = InitialInfo.branch
            /\ ~HasLine(text, StashPrefix) => info.stash = 0
            /\ ~(HasLine(text, BranchAbPrefix) \/ HasLine(text, DocumentedAbPrefix)) =>
                  info.ahead = 0 /\ info.behind = 0
            /\ ~(fileLine("1") \/ fileLine("2")) =>
                  info.staged = 0 /\ info.unstaged = 0
            /\ ~fileLine("?") => info.untracked = 0
            /\ ~fileLine("u") => info.unmerged = 0

(***************************************************************************)
(* Path shortening as a state machine: a process shortens a path, and may  *)
(* shorten the result again, as bash_prompt does with the text of the      *)
(* path part (prompt.py lines 622, 636).                                   *)
(***************************************************************************)
MaxSegments == 3

PathSegments == { <<"a">>, <<"b", "c">>, Repeat(<<"d">>, 30) }
PathRoots == { <<"/">>, homedir \o <<"/">>, <<"~", "/">> }

InputPaths ==
    { root \o join(os_sep, segs) :
        root \in PathRoots,
        segs \in UNION { [1..n -> PathSegments] : n \in 0..MaxSegments } }

MaxLengths == { MAX_PATH_LENGTH, 5 }

InitPath ==
    /\ pc = "start"
    /\ args \in { [path |-> p, max_length |-> m] : p \in InputPaths, m \in MaxLengths }
    /\ ret = NoReturn
    /\ parts = NoParts

ShortenPath ==
    /\ pc = "start"
    /\ pc' = "_shorten_path"
    /\ ret' = [raised |-> None,
               value |-> _shorten_path(args.path, args.max_length),
               parts |-> ShortenedParts(args.path, args.max_length)]
    /\ UNCHANGED <<args, parts>>

ShortenAgain ==
    /\ pc = "_shorten_path"
    /\ pc' = "shortened_again"
    /\ ret' = [raised |-> None,
               first |-> ret.value,
               value |-> _shorten_path(ret.value, args.max_length)]
    /\ UNCHANGED <<args, parts>>

NextPath == ShortenPath \/ ShortenAgain

SpecPath == InitPath /\ [][NextPath]_vars

(***************************************************************************)
(* Claims about path shortening.                                           *)
(***************************************************************************)
\* The parts of the path before the truncation loop.
UntruncatedParts(path) == BoldLast(PathParts(ReplaceHome(path)))

\* The parts when the loop reaches part i: the multi-character parts before
\* it are down to their first letter.
PartsBefore(ps, i) ==
    [j \in 1..Len(ps) |-> IF j < i /\ Len(ps[j]) > 1 THEN <<ps[j][1]>> ELSE ps[j]]

\* C3: segments are collapsed only if the path exceeds max_length printable
\* characters: a path of printable length at most max_length keeps every
\* segment, and collapsing goes from the root inward and stops at the first
\* segment after which the printable length is at most max_length.
C3_CollapseOnlyWhenTooLong ==
    pc = "_shorten_path" =>
        LET before == UntruncatedParts(args.path)
            after == ret.parts
        IN  /\ printable_length(ReplaceHome(args.path)) <= args.max_length =>
                  after = before
            /\ \A i \in 1..(Len(before) - 1) :
                  Len(before[i]) > 1 =>
                      (after[i] # before[i]
                         <=> printable_length(join(os_sep, PartsBefore(before, i)))
                               > args.max_length)

\* C4: shortening is idempotent on a path shorter than the maximum:
\* _shorten_path(_shorten_path(p)) = _shorten_path(p).
C4_ShortenIdempotent ==
    (pc = "shortened_again" /\ Len(args.path) < args.max_length) =>
        ret.value = ret.first

(***************************************************************************)
(* The assembler as a state machine: a process assembles one list of       *)
(* parts for one side.                                                     *)
(***************************************************************************)
MaxParts == 3

\* Parts as the part builders make them: with and without text, with a
\* bold flag, and (the path part) with a zero-width marker inside its text.
InputParts ==
    { [text |-> <<>>, foreground |-> BLACK, background |-> YELLOW],
      get_user_at_host(Absent, Absent, <<>>),
      get_path(homedir \o <<"/", "a">>, MAX_PATH_LENGTH),
      get_last_exit_status_from_code(Some(<<"1">>)),
      get_last_exit_status_from_code(Some(<<"0">>)) }

Sides == { "left", "right", "centre" }

InitAssemble ==
    /\ pc = "start"
    /\ args \in { [parts |-> ps, side |-> side] :
                    ps \in UNION { [1..n -> InputParts] : n \in 0..MaxParts },
                    side \in Sides }
    /\ ret = NoReturn
    /\ parts = NoParts

PartsAssembler ==
    /\ pc = "start"
    /\ pc' = "parts_assembler"
    /\ ret' = parts_assembler(args.parts, args.side)
    /\ UNCHANGED <<args, parts>>

NextAssemble == PartsAssembler

SpecAssemble == InitAssemble /\ [][NextAssemble]_vars

(***************************************************************************)
(* Claims about the assembler.                                             *)
(***************************************************************************)
\* The parts of a list whose text is not empty, in order.
WithText(ps) == SelectSeq(ps, LAMBDA part : part.text # <<>>)

\* How many characters of s are separator glyphs.
SeparatorCount(s) == Cardinality({ i \in 1..Len(s) : s[i] \in {SEP_L, SEP_R} })

\* sum(len(text) + 2) over the parts from i on.
RECURSIVE SumLen(_, _)
SumLen(ps, i) ==
    IF i > Len(ps) THEN 0 ELSE Len(ps[i].text) + 2 + SumLen(ps, i + 1)

\* sum(printable_length(text) + 2) over the parts from i on.
RECURSIVE SumPrintable(_, _)
SumPrintable(ps, i) ==
    IF i > Len(ps) THEN 0
    ELSE printable_length(ps[i].text) + 2 + SumPrintable(ps, i + 1)

\* What C5 says of an assembly, with `total` the claimed sum over the texts.
OmitsEmptyParts(total(_, _)) ==
    (pc = "parts_assembler" /\ args.side \in {"left", "right"}) =>
        LET kept == WithText(args.parts)
            n == Len(kept)
            visible == zero_width_sub(ansi_escape_sub(ret.value))
        IN  /\ ret.raised = None
            /\ ret.value = parts_assembler(kept, args.side).value
            /\ n = 0 => ret.value = <<>>
            /\ n >= 1 =>
                  /\ SeparatorCount(ret.value) = n + 1
                  /\ visible[1] = SEP_L
                  /\ visible[Len(visible)] = SEP_R
                  /\ printable_length(ret.value) = total(kept, 1) + n + 1

\* C5 (as stated): parts_assembler omits empty-text parts: its output is that
\* of the list without them, empty when no part has text, and for n >= 1
\* non-empty parts it holds n + 1 separator glyphs (one leading, n - 1
\* between, one trailing) and has printable length sum(len(text) + 2) + n + 1.
C5_OmitsEmptyParts_LenOfText == OmitsEmptyParts(SumLen)

\* C5 (amended): the same, with the printable length
\* sum(printable_length(text) + 2) + n + 1: a text's zero-width markers
\* (the bold marker of every path part) take no column.
C5_OmitsEmptyParts == OmitsEmptyParts(SumPrintable)

\* C5's case: a list with an empty-text part among two parts with text, one
\* of them a path part with its bold marker, has been assembled.
C5_Witness ==
    /\ pc = "parts_assembler"
    /\ args.side = "right"
    /\ ret.raised = None
    /\ Len(WithText(args.parts)) = 2
    /\ Len(args.parts) = 3
    /\ \E i \in 1..3 : args.parts[i].text # <<>>
                       /\ printable_length(args.parts[i].text) < Len(args.parts[i].text)

\* C10: with a side that is neither "left" nor "right", parts_assembler
\* fails for every list of parts and never returns an assembled string.
C10_UnknownSideRaises ==
    (pc = "parts_assembler" /\ args.side \notin {"left", "right"}) =>
        ret.raised = "ValueError"

(***************************************************************************)
(* The exit-status part as a state machine: a process is given the         *)
(* --last-exit-code flag (or none) and builds the part.                    *)
(***************************************************************************)
MaxCodeLen == 3

ExitChars == { "0", "1", "2", "7", "9", "-", "x" }

\* Every string over ExitChars up to MaxCodeLen, and the codes of the table.
ExitStrings ==
    UNION { [1..n -> ExitChars] : n \in 0..MaxCodeLen }
        \cup { str(c) : c \in MessageCodes }

InitExit ==
    /\ pc = "start"
    /\ args \in { [last_exit_str |-> c] :
                    c \in {Absent} \cup { Some(x) : x \in ExitStrings } }
    /\ ret = NoReturn
    /\ parts = NoParts

GetLastExitStatusFromCode ==
    /\ pc = "start"
    /\ pc' = "get_last_exit_status_from_code"
    /\ ret' = Return(get_last_exit_status_from_code(args.last_exit_str))
    /\ UNCHANGED <<args, parts>>

NextExit == GetLastExitStatusFromCode

SpecExit == InitExit /\ [][NextExit]_vars

ErrPrefix == <<"E", "R", "R", " ">>

\* C8: "0" or an unparsable code gives empty text; a code of the table gives
\* the table's label ("1" -> "ERROR", "127" -> "CMD NOT FOUND"); every other
\* code, being nonzero, gives "ERR <code>" ("999" -> "ERR 999"); and
\* "ERR <code>" is never produced for a code whose integer value is zero.
C8_ExitLabels ==
    pc = "get_last_exit_status_from_code" =>
        LET c == args.last_exit_str
            n == int(c.value)
            text == ret.value.text
        IN  /\ (~c.given \/ ~n.ok \/ c.value = <<"0">>) => text = <<>>
            /\ (c.given /\ n.ok /\ n.val \in MessageCodes) =>
                  text = messages(n.val).text
            /\ (c.given /\ c.value = <<"1">>) => text = <<"E", "R", "R", "O", "R">>
            /\ (c.given /\ c.value = <<"1", "2", "7">>) =>
                  text = <<"C", "M", "D", " ", "N", "O", "T", " ", "F", "O", "U", "N", "D">>
            /\ (c.given /\ n.ok /\ n.val # 0 /\ n.val \notin MessageCodes) =>
                  text = ErrPrefix \o str(n.val)
            /\ (c.given /\ c.value = <<"9", "9", "9">>) =>
                  text = ErrPrefix \o <<"9", "9", "9">>
            /\ (c.given /\ n.ok /\ n.val = 0) => ~startswith(text, ErrPrefix)

(***************************************************************************)
(* The style engine as a state machine: a process styles a string and      *)
(* then measures the result.                                               *)
(***************************************************************************)
MaxPieces == 2

\* What a string to style is made of: visible characters, and complete
\* markers that take no column (a zero-width bold marker as _bold writes
\* it, a raw ANSI colour code).
VisiblePieces == { <<"a">>, <<DIR_SYMBOL>> }
MarkerPieces == { _zero_width(<<ESC, "[", "1", "m">>), <<ESC, "[", "1", ";", "3", "1", "m">> }

RECURSIVE Flatten(_)
Flatten(ss) == IF Len(ss) = 0 THEN <<>> ELSE ss[1] \o Flatten(Tail(ss))

\* How many characters of the string made of `pieces` are visible.
VisibleCount(pieces) ==
    Cardinality({ i \in 1..Len(pieces) : pieces[i] \in VisiblePieces })

InitStyle ==
    /\ pc = "start"
    /\ args \in { [pieces |-> ps, foreground |-> fg, background |-> bg,
                   bold |-> b, underline |-> u, reverse |-> r] :
                    ps \in UNION { [1..n -> VisiblePieces \cup MarkerPieces] :
                                     n \in 0..MaxPieces },
                    fg \in Colors \cup {None}, bg \in {None, BLUE, WHITE},
                    b \in BOOLEAN, u \in BOOLEAN, r \in BOOLEAN }
    /\ ret = NoReturn
    /\ parts = NoParts

Style ==
    /\ pc = "start"
    /\ pc' = "style"
    /\ ret' = Return(style(Flatten(args.pieces), args.foreground, args.background,
                           args.bold, args.underline, args.reverse))
    /\ UNCHANGED <<args, parts>>

PrintableLength ==
    /\ pc = "style"
    /\ pc' = "printable_length"
    /\ ret' = [raised |-> None, styled |-> ret.value,
               value |-> printable_length(ret.value)]
    /\ UNCHANGED <<args, parts>>

NextStyle == Style \/ PrintableLength

SpecStyle == InitStyle /\ [][NextStyle]_vars

ExitFlags == { Absent, Some(<<"0">>), Some(<<"1">>) }

CwdFlags ==
    { Absent,
      Some(homedir \o <<"/", "d", "e", "v", "/", "p", "r", "o", "j", "e", "c", "t">>),
      Some(<<"/">> \o join(os_sep, << Repeat(<<"d">>, 30), Repeat(<<"e">>, 30),
                                      <<"s", "r", "c">> >>)) }

PorcelainFlags ==
    { Absent, Some(ScenarioText),
      Some(BranchHeadPrefix \o <<" ", "d", "e", "v">>) }

\* What os.getcwd() does: a path, or an OSError (2: no such directory,
\* 13: permission denied).
GetcwdResults ==
    { [errno |-> 0, value |-> <<"/", "t", "m", "p">>], [errno |-> 2], [errno |-> 13] }

Environments ==
    { [SSH_CONNECTION |-> ssh, USER |-> Some(<<"d", "e", "v">>),
       hostname |-> <<"b", "o", "x">>, VIRTUAL_ENV |-> venv, SHLVL |-> Absent,
       getcwd |-> g, now |-> 130] :
        ssh \in { Absent, Some(<<"1">>) },
        venv \in { Absent, Some(<<"/", "v", "/", "e", "n", "v">>) },
        g \in GetcwdResults }

\* What _terminal_width() can return.
Widths == { 80, 40, 24 }

InitLayout ==
    /\ pc = "start"
    /\ args \in { [flags |-> [last_exit_code |-> e, current_working_dir |-> c,
                              vcs_info |-> Absent, git_porcelain |-> g,
                              time_of_last_commit |-> Absent],
                   env |-> env, widths |-> <<>>] :
                    e \in ExitFlags, c \in CwdFlags, g \in PorcelainFlags,
                    env \in Environments }
    /\ ret = NoReturn
    /\ parts = NoParts

GetParts ==
    /\ pc = "start"
    /\ LET r == _get_parts(args.flags, args.env)
       IN  /\ ret' = r
           /\ IF r.raised = None
              THEN pc' = "_get_parts" /\ parts' = r.value
              ELSE pc' = "raised" /\ UNCHANGED parts
    /\ UNCHANGED args

\* One call of bash_prompt on the caller's mapping: the terminal is asked
\* for its width once, and once more on the overflow path.
CallBashPrompt(done) ==
    \E width1 \in Widths :
        LET Done(r, widths) ==
                /\ ret' = r
                /\ parts' = r.parts
                /\ args' = [args EXCEPT !.widths = widths]
                /\ pc' = IF r.raised = None THEN done ELSE "raised"
            Call(first) ==
                IF first.raised = None /\ first.overflow
                THEN \E width2 \in Widths :
                        Done(bash_prompt(parts, width1, width2), <<width1, width2>>)
                ELSE Done(first, <<width1>>)
        IN  Call(bash_prompt(parts, width1, width1))

BashPrompt == pc = "_get_parts" /\ CallBashPrompt("bash_prompt")

BashPromptAgain == pc = "bash_prompt" /\ CallBashPrompt("bash_prompt_again")

NextLayout == GetParts \/ BashPrompt \/ BashPromptAgain

SpecLayout == InitLayout /\ [][NextLayout]_vars

(***************************************************************************)
(* Claims about the layout.                                                *)
(***************************************************************************)
\* The first line of a prompt: what precedes the newline marker.
FirstLine(line) == SubSeq(line, 1, IndexFrom(line, NL, 1) - 3)

SpacerCount(s) == Cardinality({ i \in 1..Len(s) : s[i] = SPACER })

\* C6: with a left side of printable length L, a right side of printable
\* length R and a terminal width W >= L + R + 1, the spacer is exactly
\* W - L - R - 1 long and the first line has printable length W - 1.
C6_SpacerFillsLine ==
    (pc = "bash_prompt" /\ ret.raised = None) =>
        LET W == args.widths[1]
            L == printable_length(ret.first_left)
            R == printable_length(ret.right_side)
        IN  W >= L + R + 1 =>
              /\ SpacerCount(ret.value) = W - L - R - 1
              /\ FirstLine(ret.value)
                   = ret.first_left \o _spacer(W - L - R - 1) \o ret.right_side
              /\ printable_length(FirstLine(ret.value)) = W - 1

\* C6's case: at width 80, with an exit part on the right, both sides fit
\* and a spacer was emitted.
C6_Witness ==
    /\ pc = "bash_prompt"
    /\ ret.raised = None
    /\ args.widths = <<80>>
    /\ ret.right_side # <<>>
    /\ SpacerCount(ret.value) > 0

\* The shortened path of the run's directory: of the --current-working-dir
\* flag when given, else of the live directory, "[not found]" standing for
\* a directory that is gone.
ShortenedCwd ==
    LET cwd == args.flags.current_working_dir
    IN  IF cwd.given /\ cwd.value # <<>>
        THEN _shorten_path(cwd.value, MAX_PATH_LENGTH)
        ELSE IF args.env.getcwd.errno = 0
        THEN _shorten_path(args.env.getcwd.value, MAX_PATH_LENGTH)
        ELSE NotFoundText

\* C11: every path part _get_parts hands to bash_prompt has the text
\* folder glyph, space, shortened path, whether it comes from the flag or
\* from the live directory (its "[not found]" placeholder included), so
\* that bash_prompt's path_text, the text without its first two characters,
\* is the shortened path.
C11_PathPartHasGlyph ==
    /\ pc = "_get_parts" =>
          parts.path.text = <<DIR_SYMBOL, " ">> \o ShortenedCwd
    /\ (pc = "bash_prompt" /\ ret.raised = None) =>
          ret.path_text = ShortenedCwd

\* The mapping main hands to its first bash_prompt call.
GivenParts == _get_parts(args.flags, args.env).value

\* The line bash_prompt returns for the sides and the gap it settled on.
EmittedLine(left_side, space, right_side) ==
    left_side \o _spacer(space) \o right_side \o _newline
        \o get_chevron(GivenParts.exit.text) \o <<" ">>

\* The first call of a run took the overflow path.
Overflowed == pc = "bash_prompt" /\ ret.raised = None /\ ret.overflow

\* C12: when the first gap W - L - R - 1 is negative, the path part is
\* rebuilt once with maximum length printable_length(path_text) + gap - 2,
\* the left side is reassembled from the same user and vcs parts and the
\* rebuilt path, and the gap is recomputed once; the rebuilt left side is
\* never longer (in printable length) than the first one, and a gap that is
\* still negative gives an empty spacer and a line with no more shortening.
C12_OverflowRebuildsOnce ==
    Overflowed =>
        LET W1 == args.widths[1]
            W2 == args.widths[2]
            gap == W1 - printable_length(ret.first_left)
                      - printable_length(ret.right_side) - 1
            max_length == printable_length(ret.path_text) + gap - 2
            rebuilt == get_path(ret.path_text, max_length)
            left == parts_assembler(<<GivenParts.user, rebuilt, GivenParts.vcs>>,
                                    "left").value
            gap2 == W2 - printable_length(left) - printable_length(ret.right_side) - 1
        IN  /\ gap < 0
            /\ ret.first_space = gap
            /\ ret.path_length = max_length
            /\ ret.new_path = rebuilt
            /\ ret.left_side = left
            /\ ret.space = gap2
            /\ printable_length(ret.left_side) <= printable_length(ret.first_left)
            /\ ret.value = EmittedLine(left, gap2, ret.right_side)
            /\ gap2 < 0 => SpacerCount(ret.value) = 0

\* What a first bash_prompt call on the run's mapping returns on a terminal
\* that is `width` columns wide throughout.
FirstCallAt(width) == bash_prompt(GivenParts, width, width)

\* The state is that of a second call following a first one, both on a
\* terminal `width` columns wide throughout.
CalledTwiceAt(width) ==
    /\ pc = "bash_prompt_again"
    /\ \A i \in 1..Len(args.widths) : args.widths[i] = width
    /\ ret = bash_prompt(FirstCallAt(width).parts, width, width)

\* C13: bash_prompt leaves the caller's mapping as it was, on the fitting
\* and on the overflow path: every part keeps its text, foreground,
\* background and style keys; so a second call on the same mapping at the
\* same terminal width returns the line the first call returned.
C13_MappingUnchanged ==
    /\ (pc = "bash_prompt" /\ ret.raised = None) => parts = GivenParts
    /\ \A width \in Widths :
          CalledTwiceAt(width) =>
              /\ parts = GivenParts
              /\ ret.value = FirstCallAt(width).value

====
